---- MODULE Spec2Model ----
(***************************************************************************)
(* Campaign publication pipeline of the LightboxTV -> Open Media Logic     *)
(* integration: IntegrationService (a NestJS singleton provider, one       *)
(* mappingCache and one progressLog for every request) and the older       *)
(* LightboxCampaignTrigger (one instance per handleLightboxCampaignPublish  *)
(* call).                                                                   *)
(*                                                                         *)
(* Granularity.  Node runs an invocation without preemption from the       *)
(* completion of one OML HTTP call to the issue of the next one: the       *)
(* awaits on already settled promises (the fetchLightbox* stubs, the       *)
(* returns of the sync* helpers) only yield to microtasks, and the other   *)
(* invocations are resumed by their own I/O completions.  One action is    *)
(* therefore "an outstanding OML call returns (or throws) and the          *)
(* invocation runs up to its next OML call or to its return".              *)
(***************************************************************************)
EXTENDS Integers, Sequences, FiniteSets, TLC

\* ------------------------------------------------------------------ bounds
NumRuns == 2          \* invocations of handleCampaignPublish in one behaviour
MaxPlacements == 2    \* placements of a campaign
MaxCreatives == 2     \* creatives passed with a campaign
MaxData == 1          \* entities in one page returned by a listing call
MaxSwitches == 2      \* times the event loop turns from an unfinished invocation to another
MaxDates == 1         \* dates of a booking grid
MaxReleases == 2      \* program releases of one date of a booking grid
MaxPlans == 2         \* media plans of the catalog returned by getMediaplans

\* ------------------------------------------------------- program constants
BlockSearchChannel == 9     \* getMappedIdOrThrow("channels", 9)
SlotsPerRelease == 5        \* programRelease.blocks.slice(0, 5)
TargetMediaplanId == 42338  \* mediaplans.data.find(el => el.id === 42338)
DetailsTrail == 3           \* progressLog.slice(-3)
DefaultMaxRetries == 3      \* getNumber('OML_MAX_RETRIES', 3)

Runs == 1..NumRuns

\* ------------------------------------------------------------------ helpers
Min(a, b) == IF a < b THEN a ELSE b
Max(a, b) == IF a > b THEN a ELSE b
Last(s) == s[Len(s)]
SeqsUpTo(S, n) == UNION {[1..k -> S] : k \in 0..n}
Range(s) == {s[i] : i \in 1..Len(s)}

RECURSIVE Flatten(_)
Flatten(ss) == IF ss = <<>> THEN <<>> ELSE Head(ss) \o Flatten(Tail(ss))

\* ------------------------------------------------------------ exploration
\* What a behaviour explores.  Every OML call may throw in every scenario; a
\* scenario lets one part of the environment range over its whole domain and
\* gives the rest its usual value (the campaign of publishCampaignExample, an
\* OML whose catalogs hold one entity and whose grid has one slot):
\*   "dictionaries"  the campaigns, the creatives and the dictionary listings;
\*   "blocks"        the booking grids;
\*   "commercials"   the creatives and the commercial catalog;
\*   "reservation"   the media-plan catalog and the spots of the updated block;
\*   "requests"      NumRuns invocations, overlapping up to MaxSwitches, each
\*                   publishing a campaign without placements and creatives;
\*   "configuration" the IntegrationConfig (elsewhere the one of EnvConfig).
VARIABLE scenario
Scenarios ==
    {"dictionaries", "blocks", "commercials", "reservation", "requests", "configuration"}

\* ------------------------------------------------------------- input domains
Categories == {"advertisers", "brands", "channels", "targetAudiences"}
AdvertiserIds == {101}
ChannelIds == {BlockSearchChannel, 4}
TargetAudienceIds == {501}
CreativeIds == {201, 202}
RemoteIds == {1, 2}          \* ids of the entities of an OML catalog

\* fetchLightbox*: the name of a local entity (`Brand ${id}`).
LocalName(category, lbxId) == <<category, lbxId>>

\* The OML catalog of a category: entity 1 bears the name of one local entity,
\* entity 2 the name of another one or of none.
OmlName(category, omlId) ==
    CASE category = "advertisers" -> LocalName(category, IF omlId = 1 THEN 101 ELSE 100)
      [] category = "brands" -> LocalName(category, IF omlId = 1 THEN 401 ELSE 402)
      [] category = "channels" -> LocalName(category, IF omlId = 1 THEN 9 ELSE 4)
      [] category = "targetAudiences" -> LocalName(category, IF omlId = 1 THEN 501 ELSE 500)
OmlEntities(category) == {[id |-> i, name |-> OmlName(category, i)] : i \in RemoteIds}

\* LightboxTVPlacement, LightboxTVCreative, LightboxTVCampaign: the fields the
\* pipeline reads.
Placements == [channel_id : ChannelIds, brand_id : {401}, target_audience_id : TargetAudienceIds]
Creatives == {[id |-> 201, brand_id |-> 401, advertiser_id |-> 101],
              [id |-> 202, brand_id |-> 402, advertiser_id |-> 102]}
ExamplePlacement ==
    [channel_id |-> BlockSearchChannel, brand_id |-> 401, target_audience_id |-> 501]
ExampleCampaign ==
    [advertiser_id |-> 101, placements |-> <<ExamplePlacement, ExamplePlacement>>]
ExampleCreatives == <<[id |-> 201, brand_id |-> 401, advertiser_id |-> 101]>>
Campaigns ==
    CASE scenario = "dictionaries" ->
            [advertiser_id : AdvertiserIds, placements : SeqsUpTo(Placements, MaxPlacements)]
      [] scenario = "requests" -> {[advertiser_id |-> 101, placements |-> <<>>]}
      [] OTHER -> {ExampleCampaign}
CreativeLists ==
    CASE scenario \in {"dictionaries", "commercials"} -> SeqsUpTo(Creatives, MaxCreatives)
      [] scenario = "requests" -> {<<>>}
      [] OTHER -> {ExampleCreatives}

\* Responses of the OML client.  A call either throws (ok = FALSE, with the
\* message of the thrown error) or returns its data.
Thrown(op) == [ok |-> FALSE, msg |-> <<"OML", op>>]
Returned(d) == [ok |-> TRUE, data |-> d]
Responses(op, domain) == {Thrown(op)} \cup {Returned(d) : d \in domain}

\* A dictionary listing: a page of the catalog.  The request carries no filter,
\* so the page may hold any entities of the category.
ListingCategory(op) ==
    CASE op = "getAdvertisers" -> "advertisers"
      [] op = "getBrands" -> "brands"
      [] op = "getChannels" -> "channels"
      [] op = "getTargetAudiences" -> "targetAudiences"
ListingResponses(op) ==
    Responses(op, IF scenario \in {"dictionaries", "requests"}
                  THEN SeqsUpTo(OmlEntities(ListingCategory(op)), MaxData)
                  ELSE {<<[id |-> 1, name |-> OmlName(ListingCategory(op), 1)]>>})

\* Booking grids: date -> program releases -> blocks.  A release has no block,
\* one block, or one more than the pipeline takes; its k-th block has id 600+k,
\* so the same slot id occurs in several releases.
ReleaseSizes == {0, 1, SlotsPerRelease + 1}
Releases == {[k \in 1..n |-> 600 + k] : n \in ReleaseSizes}
Grids ==
    IF scenario = "blocks" THEN SeqsUpTo(SeqsUpTo(Releases, MaxReleases), MaxDates)
    ELSE {<< <<[k \in 1..1 |-> 600 + k]>> >>}
BookingResponses == Responses("getChannelBooking", Grids)

\* getBlockById(id): the full block of that id.
BlockResponses(id) == Responses("getBlockById", {[id |-> id]})

LoginResponses == Responses("login", {<<>>})

\* The commercial catalog (the ids of its records).
CommercialResponses ==
    Responses("getCommercials",
              IF scenario = "commercials" THEN SeqsUpTo(CreativeIds, MaxData) ELSE {<<201>>})

\* The media-plan catalog.
Mediaplans == [id : {TargetMediaplanId, 7}, commercials : {<<>>, <<201>>, <<202, 201>>}]
ExampleMediaplan == [id |-> TargetMediaplanId, commercials |-> <<201>>]
MediaplanResponses ==
    Responses("getMediaplans",
              IF scenario = "reservation" THEN SeqsUpTo(Mediaplans, MaxPlans)
              ELSE {<<ExampleMediaplan>>})

\* addSpotToBlock: the updated block's spots.
Spots == {[id |-> 901, commercial_id |-> 201], [id |-> 902, commercial_id |-> 202]}
AddSpotResponses ==
    Responses("addSpotToBlock",
              IF scenario = "reservation" THEN SeqsUpTo(Spots, MaxData)
              ELSE {<<[id |-> 901, commercial_id |-> 201]>>})

\* -------------------------------------------------- Map<number, number>
\* A JavaScript Map keeps insertion order: a sequence of [k, v] entries.
MapHas(m, k) == \E i \in 1..Len(m) : m[i].k = k
MapGet(m, k) == m[CHOOSE i \in 1..Len(m) : m[i].k = k].v
MapSet(m, k, v) ==
    IF MapHas(m, k)
    THEN [i \in 1..Len(m) |-> IF m[i].k = k THEN [k |-> k, v |-> v] ELSE m[i]]
    ELSE Append(m, [k |-> k, v |-> v])
MapKeys(m) == {m[i].k : i \in 1..Len(m)}

\* The constructor: one empty map per category.
NewMappingCache == [c \in Categories |-> <<>>]

\* --------------------------------------------------------------- state
VARIABLES
    impl,           \* the entry point of the deployment: "service" is the NestJS
                    \* controller on the IntegrationService singleton, "trigger" is
                    \* handleLightboxCampaignPublish (a new LightboxCampaignTrigger
                    \* for every call)
    config,         \* the IntegrationConfig of the deployment: maxRetries and
                    \* whether a progressCallback is set
    delivered,      \* per instance: the entries its progressCallback was called with
    mappingCache,   \* per instance: category -> Map(lbxId -> omlId)
    progressLog,    \* per instance: the IntegrationProgress entries
    sched,          \* the invocation that ran last and the switches so far
    run             \* per invocation: the locals of handleCampaignPublish and of
                    \* the helper it is suspended in, the OML calls it has issued
                    \* and the result it has resolved to

vars == <<scenario, impl, config, mappingCache, progressLog, delivered, sched, run>>

\* The configurations.  EnvConfig.getOmlConfig always sets a callback that
\* prints the entry; the caller of handleLightboxCampaignPublish may leave
\* progressCallback out.
RetryLimits == {0, DefaultMaxRetries}
EnvConfig == [maxRetries |-> DefaultMaxRetries, progressCallback |-> "prints"]
Configs ==
    IF scenario # "configuration" THEN {EnvConfig}
    ELSE [maxRetries : RetryLimits,
          progressCallback : IF impl = "service" THEN {"prints"} ELSE {"none", "prints"}]

\* The progressCallback of an IntegrationConfig is any function of the caller:
\* besides the callbacks that return, one that throws on every entry, one that
\* throws on the complete entry and one that throws on the error entry.
ThrowingCallbacks == {"throws", "throwsOnComplete", "throwsOnError"}
AnyCallbackConfigs ==
    IF scenario # "configuration" THEN {EnvConfig}
    ELSE [maxRetries : RetryLimits,
          progressCallback : IF impl = "service" THEN {"prints"}
                             ELSE {"none", "prints"} \cup ThrowingCallbacks]

\* Instance 0 is the IntegrationService singleton; instance r is the trigger
\* object constructed for invocation r.
Instances == {0} \cup Runs
InstanceOf(r) == IF impl = "service" THEN 0 ELSE r

NoCampaign == [advertiser_id |-> 0, placements |-> <<>>]
NoResult == [status |-> "pending"]

\* An invocation that has not been called yet.
IdleRun ==
    [pc |-> "idle", campaign |-> NoCampaign, creatives |-> <<>>,
     work |-> <<>>, grid |-> <<>>, slots |-> <<>>, blocks |-> <<>>,
     catalog |-> <<>>, commercials |-> <<>>,
     mediaplans |-> <<>>, plans |-> <<>>, chosen |-> <<>>,
     updated |-> <<>>, spots |-> <<>>, console |-> <<>>,
     phases |-> <<"Idle">>, calls |-> <<>>, replies |-> <<>>, result |-> NoResult]

\* The state one invocation works on: its own locals (the fields of IdleRun),
\* its number (id) and the two fields of the service instance it runs on.
Machine(r) ==
    [id |-> r, impl |-> impl, config |-> config,
     log |-> progressLog[InstanceOf(r)], cache |-> mappingCache[InstanceOf(r)],
     delivered |-> delivered[InstanceOf(r)],
     pc |-> run[r].pc, campaign |-> run[r].campaign, creatives |-> run[r].creatives,
     work |-> run[r].work, grid |-> run[r].grid, slots |-> run[r].slots,
     blocks |-> run[r].blocks, catalog |-> run[r].catalog,
     commercials |-> run[r].commercials, mediaplans |-> run[r].mediaplans,
     plans |-> run[r].plans, chosen |-> run[r].chosen,
     updated |-> run[r].updated, spots |-> run[r].spots,
     console |-> run[r].console, phases |-> run[r].phases,
     calls |-> run[r].calls, replies |-> run[r].replies, result |-> run[r].result]

Locals(m) == [f \in DOMAIN IdleRun |-> m[f]]

\* ----------------------------------------------------------- logProgress
\* The entry pushed on progressLog, then passed to the callback when one is
\* set.  `at` stands for the timestamp: it tells which invocation made the
\* entry.
ProgressEntry(m, step, progress, message) ==
    [step |-> step, progress |-> progress, message |-> message, at |-> m.id]

\* Mutant: the error entry is logged without a notification.
LogProgress_SilentError(m, step, progress, message) ==
    LET entry == ProgressEntry(m, step, progress, message)
    IN  [m EXCEPT !.log = Append(@, entry),
                  !.delivered = IF m.config.progressCallback # "none" /\ step # "error"
                                THEN Append(@, entry) ELSE @]

LogProgress(m, step, progress, message) ==
    LET entry == ProgressEntry(m, step, progress, message)
    IN  [m EXCEPT !.log = Append(@, entry),
                  !.delivered = IF m.config.progressCallback # "none"
                                THEN Append(@, entry) ELSE @]

\* progressLog.slice(-3)
LastEntries(log, n) == SubSeq(log, Max(1, Len(log) - n + 1), Len(log))

\* Mutant: slice(-2).
GetErrorDetails_TwoEntries(log, message) ==
    [message |-> message, trail |-> LastEntries(log, DetailsTrail - 1)]

\* getErrorDetails: the message and the last entries of the log.
GetErrorDetails(log, message) ==
    [message |-> message, trail |-> LastEntries(log, DetailsTrail)]

\* new Error(`<prefix>: ${error.message}`)
Wrap(prefix, message) == <<prefix>> \o message

\* An OML call issued by the invocation, and the answer it got (what a mocked
\* client records): replies[i] answers calls[i].
Issue(m, op, arg) == [m EXCEPT !.calls = Append(@, [op |-> op, arg |-> arg])]
ListingOps == {"getAdvertisers", "getBrands", "getChannels", "getTargetAudiences",
               "getCommercials", "getMediaplans"}
Received(m, resp) ==
    LET op == Last(m.calls).op
    IN  [m EXCEPT !.replies = Append(@,
            [op |-> op, ok |-> resp.ok,
             msg |-> IF resp.ok THEN <<>> ELSE resp.msg,
             empty |-> resp.ok /\ op \in ListingOps /\ Len(resp.data) = 0])]
Enter(m, phase) == [m EXCEPT !.phases = Append(@, phase)]

\* Mutant: the error details cut the log down to its last entries (splice).
HandleError_Trims(m, message) ==
    LET logged == LogProgress(m, "error", -1, Wrap("integration_error", message))
    IN  [Enter(logged, "Failed") EXCEPT
            !.pc = "done",
            !.log = LastEntries(logged.log, DetailsTrail),
            !.result = [success |-> FALSE, status |-> "failed", error |-> message,
                        details |-> GetErrorDetails(logged.log, message)]]

\* Mutant: the failed result carries no details.
HandleError_NoDetails(m, message) ==
    [Enter(LogProgress(m, "error", -1, Wrap("integration_error", message)), "Failed") EXCEPT
        !.pc = "done",
        !.result = [success |-> FALSE, status |-> "failed", error |-> message]]

\* config.progressCallback(progressEntry) throws: logProgress has pushed the
\* entry and lets the error of the callback through.
CallbackThrows(cfg, step) ==
    \/ cfg.progressCallback = "throws"
    \/ cfg.progressCallback = "throwsOnComplete" /\ step = "complete"
    \/ cfg.progressCallback = "throwsOnError" /\ step = "error"
CallbackError == <<"callback">>

\* Nothing catches an error thrown in the catch block: the promise of
\* handleCampaignPublish rejects and no IntegrationResult is returned.
Reject(m, message) ==
    [m EXCEPT !.pc = "done",
              !.result = [success |-> FALSE, status |-> "rejected", error |-> message]]

\* The catch block of handleCampaignPublish.
HandleError(m, message) ==
    LET logged == LogProgress(m, "error", -1, Wrap("integration_error", message))
    IN  IF CallbackThrows(m.config, "error") THEN Reject(logged, CallbackError)
        ELSE [Enter(logged, "Failed") EXCEPT
                !.pc = "done",
                !.result = [success |-> FALSE, status |-> "failed", error |-> message,
                            details |-> GetErrorDetails(logged.log, message)]]

\* A logProgress call of the try block of handleCampaignPublish has pushed its
\* entry: the catch block is entered when the callback threw, and the
\* invocation goes on otherwise.
AfterLog(logged, step, continued) ==
    IF CallbackThrows(logged.config, step) THEN HandleError(logged, CallbackError)
    ELSE continued

\* ------------------------------------------------ getMappedIdOrThrow
HasMapping(cache, entityType, lbxId) ==
    entityType \in DOMAIN cache /\ MapHas(cache[entityType], lbxId)
GetMappedId(cache, entityType, lbxId) == MapGet(cache[entityType], lbxId)
NoMappingMessage(entityType, lbxId) == <<"no_mapping", entityType, ToString(lbxId)>>

\* Mutant: an unmapped id is answered with the id itself instead of a throw.
GetMappedIdOrThrow_Default(cache, entityType, lbxId) ==
    IF HasMapping(cache, entityType, lbxId)
    THEN [ok |-> TRUE, value |-> GetMappedId(cache, entityType, lbxId), cache |-> cache]
    ELSE [ok |-> TRUE, value |-> lbxId, cache |-> cache]

\* getMappedIdOrThrow: the id (ok) or the thrown message, and the cache after
\* the call.
GetMappedIdOrThrow(cache, entityType, lbxId) ==
    IF HasMapping(cache, entityType, lbxId)
    THEN [ok |-> TRUE, value |-> GetMappedId(cache, entityType, lbxId), cache |-> cache]
    ELSE [ok |-> FALSE, msg |-> NoMappingMessage(entityType, lbxId), cache |-> cache]

\* --------------------------------------------------- getReverseMappedId
\* The loop over mapping.entries() returns at the first entry whose value is
\* omlId.  value is <<lbxId>>, or <<>> for null; cache is the cache after the
\* call.
GetReverseMappedId(cache, entityType, omlId) ==
    IF entityType \notin DOMAIN cache THEN [value |-> <<>>, cache |-> cache]
    ELSE LET mapping == cache[entityType]
             hits == {i \in 1..Len(mapping) : mapping[i].v = omlId}
         IN  [value |-> IF hits = {} THEN <<>>
                        ELSE <<mapping[CHOOSE i \in hits : \A j \in hits : i <= j].k>>,
              cache |-> cache]

\* ------------------------------------------ syncReferenceDictionaries
\* Array.from(new Set(ids)): the first occurrences, in order.
RECURSIVE Distinct(_)
Distinct(ids) ==
    IF ids = <<>> THEN <<>>
    ELSE LET rest == Distinct(SubSeq(ids, 1, Len(ids) - 1))
         IN  IF Last(ids) \in Range(rest) THEN rest ELSE Append(rest, Last(ids))

Tagged(category, ids) == [i \in 1..Len(ids) |-> [category |-> category, id |-> ids[i]]]

\* The ids the four sync* calls receive, in call order.
AdvertiserIdsOf(campaign) == <<campaign.advertiser_id>>
\* Mutant: the brands of the creatives are not collected.
BrandIdsOf_PlacementsOnly(campaign, creatives) ==
    Distinct([i \in 1..Len(campaign.placements) |-> campaign.placements[i].brand_id])

BrandIdsOf(campaign, creatives) ==
    Distinct([i \in 1..Len(campaign.placements) |-> campaign.placements[i].brand_id]
             \o [i \in 1..Len(creatives) |-> creatives[i].brand_id])
ChannelIdsOf(campaign) ==
    [i \in 1..Len(campaign.placements) |-> campaign.placements[i].channel_id]
TargetAudienceIdsOf(campaign) ==
    [i \in 1..Len(campaign.placements) |-> campaign.placements[i].target_audience_id]

\* Mutant: the channels are synchronized before the brands.
SyncWork_ChannelsFirst(campaign, creatives) ==
    Tagged("advertisers", AdvertiserIdsOf(campaign))
    \o Tagged("channels", ChannelIdsOf(campaign))
    \o Tagged("brands", BrandIdsOf(campaign, creatives))
    \o Tagged("targetAudiences", TargetAudienceIdsOf(campaign))

SyncWork(campaign, creatives) ==
    Tagged("advertisers", AdvertiserIdsOf(campaign))
    \o Tagged("brands", BrandIdsOf(campaign, creatives))
    \o Tagged("channels", ChannelIdsOf(campaign))
    \o Tagged("targetAudiences", TargetAudienceIdsOf(campaign))

\* Mutant: the memoization check is lost.
AlreadySynced_Never(cache, item) == FALSE

\* `if (this.mappingCache.get(category)?.has(id)) continue;`
AlreadySynced(cache, item) == MapHas(cache[item.category], item.id)

RECURSIVE SkipSynced(_, _)
SkipSynced(work, cache) ==
    IF work = <<>> \/ ~AlreadySynced(cache, Head(work)) THEN work
    ELSE SkipSynced(Tail(work), cache)

ListingOp(category) ==
    CASE category = "advertisers" -> "getAdvertisers"
      [] category = "brands" -> "getBrands"
      [] category = "channels" -> "getChannels"
      [] category = "targetAudiences" -> "getTargetAudiences"

NotFoundMessage(item) == <<"not_found", item.category, ToString(item.id)>>

\* `this.mappingCache.get(category)?.set(lbxId, omlId)`
RecordMapping(cache, item, omlId) ==
    [cache EXCEPT ![item.category] = MapSet(@, item.id, omlId)]

\* -------------------------------------------------- findBlocksForPlacement
\* The slots the loops select from a grid: per date, per program release, the
\* first five blocks.
\* Mutant: every block of a release is taken.
FirstSlots_All(blocks) == blocks

FirstSlots(blocks) == SubSeq(blocks, 1, Min(SlotsPerRelease, Len(blocks)))
SelectedSlots(grid) ==
    Flatten([d \in 1..Len(grid) |->
                Flatten([p \in 1..Len(grid[d]) |-> FirstSlots(grid[d][p])])])

\* ---------------------------------------------------- findAndMapCommercials
\* Mutant: the whole catalog is returned, as LightboxCampaignTrigger does.
MatchCommercials_All(creatives, catalog) == catalog

\* IntegrationService: for each creative the catalog entry with the same id.
RECURSIVE MatchCommercials(_, _)
MatchCommercials(creatives, catalog) ==
    IF creatives = <<>> THEN <<>>
    ELSE LET rest == MatchCommercials(Tail(creatives), catalog)
         IN  IF Head(creatives).id \in Range(catalog)
             THEN <<Head(creatives).id>> \o rest ELSE rest

\* ------------------------------------------------------------ reserveSpots
\* Mutant: the first media plan of the catalog is taken, whatever its id.
FindMediaplan_First(plans) == IF plans = <<>> THEN <<>> ELSE <<plans[1]>>

\* mediaplans.data.find(el => el.id === 42338)
FindMediaplan(plans) ==
    LET hits == {i \in 1..Len(plans) : plans[i].id = TargetMediaplanId}
    IN  IF hits = {} THEN <<>> ELSE <<plans[CHOOSE i \in hits : \A j \in hits : i <= j]>>

\* mediaplan?.commercials?.[0]
FirstCommercial(found) ==
    IF found = <<>> \/ found[1].commercials = <<>> THEN <<>> ELSE <<found[1].commercials[1]>>

\* blocksForPlacement[0]!.id, undefined when no block was found
BlockIdOf(blocks) == IF blocks = <<>> THEN 0 ELSE blocks[1].id

\* =================================================== the pipeline, step by step
\* Each operator takes the Machine of an invocation and gives the Machine at
\* the invocation's next suspension point (an issued OML call) or at its return.

\* Mutant: the run that reserved nothing is reported as partial.
Complete_Partial(m, spots) ==
    LET reserved == LogProgress(m, "reserve_spots", 80, <<"reserved", "1">>)
    IN  [Enter(LogProgress(reserved, "complete", 100, <<"done">>), "Complete") EXCEPT
            !.pc = "done",
            !.result = [success |-> spots # <<>>,
                        status |-> IF spots # <<>> THEN "complete" ELSE "partial",
                        details |-> <<"done">>]]

\* Mutant: the complete entry is logged before the reserve_spots entry.
Complete_LogsCompleteFirst(m, spots) ==
    LET completed == LogProgress(m, "complete", 100, <<"done">>)
    IN  [Enter(LogProgress(completed, "reserve_spots", 80, <<"reserved", "1">>), "Complete") EXCEPT
            !.pc = "done", !.spots = spots,
            !.result = [success |-> TRUE, status |-> "complete", details |-> <<"done">>]]

\* Steps 5 (end) and 6 of handleCampaignPublish: reserveSpots has returned
\* `spots`; the result and the last entries.
Complete(m, spots) ==
    LET reserved == LogProgress(m, "reserve_spots", 80,
                        <<"reserved", IF m.impl = "service" THEN "1" ELSE ToString(Len(spots))>>)
        result == IF m.impl = "service"
                  THEN [success |-> TRUE, status |-> "complete", details |-> <<"done">>]
                  ELSE [success |-> TRUE, status |-> "complete", details |-> <<"done">>,
                        commercial_ids |-> m.commercials,
                        spot_ids |-> [i \in 1..Len(spots) |-> spots[i].id]]
        completed == LogProgress([reserved EXCEPT !.spots = spots], "complete", 100, <<"done">>)
    IN  AfterLog([reserved EXCEPT !.spots = spots], "reserve_spots",
            AfterLog(completed, "complete",
                [Enter(completed, "Complete") EXCEPT !.pc = "done", !.result = result]))

\* A throw inside findBlocksForPlacement: wrapped there, and in the trigger
\* wrapped once more by reserveSpots, which called it.
FindBlocksThrows(m, message) ==
    IF m.impl = "service"
    THEN HandleError(m, Wrap("find_blocks_error", message))
    ELSE HandleError(m, Wrap("reserve_error", Wrap("find_blocks_error", message)))

\* Mutant: the grid is requested before the mapping is looked at.
FindBlocksForPlacement_RequestsFirst(m) ==
    [Issue(m, "getChannelBooking",
           <<IF HasMapping(m.cache, "channels", BlockSearchChannel)
             THEN GetMappedId(m.cache, "channels", BlockSearchChannel) ELSE 0>>) EXCEPT
        !.pc = "booking", !.grid = <<>>, !.blocks = <<>>, !.slots = <<>>]

\* findBlocksForPlacement up to its first await.
FindBlocksForPlacement(m) ==
    LET omlChannelId == GetMappedIdOrThrow(m.cache, "channels", BlockSearchChannel)
    IN  IF ~omlChannelId.ok THEN FindBlocksThrows(m, omlChannelId.msg)
        ELSE [Issue(m, "getChannelBooking", <<omlChannelId.value>>) EXCEPT
                !.pc = "booking", !.grid = <<>>, !.blocks = <<>>, !.slots = <<>>]

\* reserveSpots once the commercial, the media plan and the block are known.
AttachSpot(m, found, blockId) ==
    IF FirstCommercial(found) = <<>>
    THEN Complete([m EXCEPT !.console = Append(@, "not found commercial")], <<>>)
    ELSE IF found = <<>>
    THEN Complete([m EXCEPT !.console = Append(@, "not found mediaplan")], <<>>)
    ELSE [Issue(m, "addSpotToBlock", <<blockId, FirstCommercial(found)[1], found[1].id>>) EXCEPT
            !.pc = "addSpot"]

\* LightboxCampaignTrigger.findCommercialForPlacement: the loop over the media
\* plans, entered at its top.  m.plans are the plans not yet visited, m.chosen
\* the (block, media plan) assigned so far.
RECURSIVE SkipPlansWithoutCommercials(_)
SkipPlansWithoutCommercials(plans) ==
    IF plans = <<>> \/ Head(plans).commercials # <<>> THEN plans
    ELSE SkipPlansWithoutCommercials(Tail(plans))

FindCommercialForPlacement(m) ==
    LET plans == SkipPlansWithoutCommercials(m.plans)
    IN  IF plans # <<>>
        THEN FindBlocksForPlacement([m EXCEPT !.plans = plans])
        ELSE AttachSpot([m EXCEPT !.plans = <<>>],
                        IF m.chosen = <<>> THEN <<>> ELSE <<m.chosen[1].mediaplan>>,
                        IF m.chosen = <<>> THEN 0 ELSE m.chosen[1].block.id)

\* Step 5 of handleCampaignPublish up to the first await of reserveSpots.
ReserveSpots(m) ==
    [Issue(Enter(m, "ReservingSpots"), "getMediaplans", <<>>) EXCEPT !.pc = "mediaplans"]

\* Step 4 of handleCampaignPublish up to the await in findAndMapCommercials.
FindAndMapCommercials(m) ==
    [Issue(Enter(m, "MappingCommercials"), "getCommercials", <<>>) EXCEPT !.pc = "commercials"]

\* findBlocksForPlacement returns its blocks.
BlocksFound(m) ==
    IF m.impl = "service"
    THEN LET logged == LogProgress(m, "find_blocks", 30, <<"found", ToString(Len(m.blocks))>>)
         IN  AfterLog(logged, "find_blocks", FindAndMapCommercials(logged))
    ELSE FindCommercialForPlacement(
            [m EXCEPT !.plans = Tail(@),
                      !.chosen = IF m.blocks = <<>> THEN @
                                 ELSE <<[block |-> m.blocks[1], mediaplan |-> Head(m.plans)]>>])

\* Mutant: a slot whose block was already fetched is skipped.
BlocksLoop_Dedup(m) ==
    LET fetched == {m.blocks[i].id : i \in 1..Len(m.blocks)}
        slots == SelectSeq(m.slots, LAMBDA s : s \notin fetched)
    IN  IF slots = <<>> THEN BlocksFound([m EXCEPT !.slots = <<>>])
        ELSE [Issue(m, "getBlockById", <<Head(slots)>>) EXCEPT !.pc = "block", !.slots = slots]

\* The loop over the selected slots, entered at its top.
BlocksLoop(m) ==
    IF m.slots = <<>> THEN BlocksFound(m)
    ELSE [Issue(m, "getBlockById", <<Head(m.slots)>>) EXCEPT !.pc = "block"]

\* Mutant: step 3 is commented out in the service too.
DictionariesSynced_NoBlockSearch(m) ==
    FindAndMapCommercials(LogProgress(m, "sync_dictionaries", 15, <<"synced">>))

\* syncReferenceDictionaries has returned: its progress entry and step 3 (the
\* trigger has no step 3).
DictionariesSynced(m) ==
    LET logged == LogProgress(m, "sync_dictionaries", 15, <<"synced">>)
    IN  AfterLog(logged, "sync_dictionaries",
            IF m.impl = "service"
            THEN FindBlocksForPlacement(Enter(logged, "FindingBlocks"))
            ELSE FindAndMapCommercials(logged))

\* Mutant: the listings of the ids still to map are issued together.
SyncLoop_FanOut(m) ==
    LET work == SkipSynced(m.work, m.cache)
        first == Issue(m, ListingOp(Head(work).category), <<Head(work).id>>)
    IN  IF work = <<>> THEN DictionariesSynced([m EXCEPT !.work = <<>>])
        ELSE IF Len(work) = 1 THEN [first EXCEPT !.pc = "lookup", !.work = work]
        ELSE [Issue(first, ListingOp(work[2].category), <<work[2].id>>) EXCEPT
                !.pc = "lookup", !.work = work]

\* The loops of syncAdvertisers, syncBrands, syncChannels and
\* syncTargetAudiences, entered at the top of an iteration: m.work are the ids
\* not yet visited, over the four categories.
SyncLoop(m) ==
    LET work == SkipSynced(m.work, m.cache)
    IN  IF work = <<>> THEN DictionariesSynced([m EXCEPT !.work = <<>>])
        ELSE [Issue(m, ListingOp(Head(work).category), <<Head(work).id>>) EXCEPT
                !.pc = "lookup", !.work = work]

\* ------------------------------------------------ the continuations of the awaits
\* handleCampaignPublish is called.
Begin(m, campaign, creatives) ==
    LET logged == LogProgress([m EXCEPT !.campaign = campaign, !.creatives = creatives],
                              "start", 0, <<"start">>)
    IN  AfterLog(logged, "start",
            [Issue(Enter(logged, "Authenticating"), "login", <<>>) EXCEPT !.pc = "login"])

\* Mutant: authenticate rethrows without the message of the login error.
OnLogin_DropsMessage(m, resp) ==
    IF ~resp.ok THEN HandleError(m, <<"auth_error">>)
    ELSE SyncLoop([Enter(LogProgress(m, "authentication", 5, <<"authenticated">>),
                         "SyncingDictionaries") EXCEPT
                     !.work = SyncWork(m.campaign, m.creatives)])

\* Mutant: a failed login is repeated while config.maxRetries allows.
OnLogin_Retries(m, resp) ==
    IF ~resp.ok /\ Len(m.calls) <= m.config.maxRetries
    THEN [Issue(m, "login", <<>>) EXCEPT !.pc = "login"]
    ELSE IF ~resp.ok THEN HandleError(m, Wrap("auth_error", resp.msg))
    ELSE SyncLoop([Enter(LogProgress(m, "authentication", 5, <<"authenticated">>),
                         "SyncingDictionaries") EXCEPT
                     !.work = SyncWork(m.campaign, m.creatives)])

\* omlClient.login settles (authenticate, then steps 1 and 2).
OnLogin(m, resp) ==
    IF ~resp.ok THEN HandleError(m, Wrap("auth_error", resp.msg))
    ELSE LET logged == LogProgress(m, "authentication", 5, <<"authenticated">>)
         IN  AfterLog(logged, "authentication",
                SyncLoop([Enter(logged, "SyncingDictionaries") EXCEPT
                            !.work = SyncWork(m.campaign, m.creatives)]))

\* Mutant: a failing lookup drops the mappings of its category.
OnLookup_Rollback(m, resp) ==
    IF resp.ok /\ Len(resp.data) > 0
    THEN SyncLoop([m EXCEPT !.cache = RecordMapping(@, Head(m.work), resp.data[1].id),
                            !.work = Tail(@)])
    ELSE HandleError([m EXCEPT !.cache[Head(m.work).category] = <<>>],
                     Wrap("sync_error", IF resp.ok THEN NotFoundMessage(Head(m.work))
                                        ELSE resp.msg))

\* Mutant: an empty listing is skipped instead of failing the sync.
OnLookup_SkipsMissing(m, resp) ==
    IF ~resp.ok THEN HandleError(m, Wrap("sync_error", resp.msg))
    ELSE IF Len(resp.data) > 0
    THEN SyncLoop([m EXCEPT !.cache = RecordMapping(@, Head(m.work), resp.data[1].id),
                            !.work = Tail(@)])
    ELSE SyncLoop([m EXCEPT !.work = Tail(@)])

\* A listing call of a sync* loop settles.
OnLookup(m, resp) ==
    IF ~resp.ok THEN HandleError(m, Wrap("sync_error", resp.msg))
    ELSE IF Len(resp.data) > 0
    THEN SyncLoop([m EXCEPT !.cache = RecordMapping(@, Head(m.work), resp.data[1].id),
                            !.work = Tail(@)])
    ELSE HandleError(m, Wrap("sync_error", NotFoundMessage(Head(m.work))))

\* Mutant: a failed grid request counts as an empty grid.
OnBooking_Swallows(m, resp) ==
    IF ~resp.ok THEN BlocksLoop([m EXCEPT !.slots = <<>>])
    ELSE BlocksLoop([m EXCEPT !.slots = SelectedSlots(resp.data)])

\* omlClient.getChannelBooking settles.
OnBooking(m, resp) ==
    IF ~resp.ok THEN FindBlocksThrows(m, resp.msg)
    ELSE BlocksLoop([m EXCEPT !.grid = resp.data, !.slots = SelectedSlots(resp.data)])

\* Mutant: the slot loop does not advance.
OnBlock_SameSlot(m, resp) ==
    IF ~resp.ok THEN FindBlocksThrows(m, resp.msg)
    ELSE BlocksLoop([m EXCEPT !.blocks = Append(@, resp.data)])

\* omlClient.getBlockById settles.
OnBlock(m, resp) ==
    IF ~resp.ok THEN FindBlocksThrows(m, resp.msg)
    ELSE BlocksLoop([m EXCEPT !.blocks = Append(@, resp.data), !.slots = Tail(@)])

\* omlClient.getCommercials settles.
OnCommercials(m, resp) ==
    IF ~resp.ok THEN HandleError(m, Wrap("commercials_error", resp.msg))
    ELSE LET commercials == IF m.impl = "service"
                            THEN MatchCommercials(m.creatives, resp.data)
                            ELSE resp.data
             logged == LogProgress([m EXCEPT !.catalog = resp.data,
                                             !.commercials = commercials],
                            "map_commercials", 50, <<"matched", ToString(Len(commercials))>>)
         IN  AfterLog(logged, "map_commercials", ReserveSpots(logged))

\* omlClient.getMediaplans settles.
OnMediaplans(m, resp) ==
    IF ~resp.ok THEN HandleError(m, Wrap("reserve_error", resp.msg))
    ELSE IF m.impl = "service"
    THEN AttachSpot([m EXCEPT !.mediaplans = resp.data],
                    FindMediaplan(resp.data), BlockIdOf(m.blocks))
    ELSE FindCommercialForPlacement(
            [m EXCEPT !.mediaplans = resp.data, !.plans = resp.data, !.chosen = <<>>])

\* Mutant: the first spot of the updated block is taken, whatever its commercial.
AddedSpot_Any(spots, commercialId) == IF spots = <<>> THEN <<>> ELSE <<spots[1]>>

\* The spot of the updated block with the commercial just attached.
AddedSpot(spots, commercialId) ==
    LET hits == {i \in 1..Len(spots) : spots[i].commercial_id = commercialId}
    IN  IF hits = {} THEN <<>> ELSE <<spots[CHOOSE i \in hits : \A j \in hits : i <= j]>>

\* Mutant: the service returns the added spot, as LightboxCampaignTrigger does.
OnAddSpot_ReturnsSpot(m, resp) ==
    IF ~resp.ok
    THEN Complete([m EXCEPT !.console = Append(@, "reserve failed")], <<>>)
    ELSE Complete([m EXCEPT !.updated = resp.data],
                  AddedSpot(resp.data, Last(m.calls).arg[2]))

\* Mutant: the failure of the attachment is rethrown.
OnAddSpot_Rethrows(m, resp) ==
    IF ~resp.ok THEN HandleError(m, Wrap("reserve_error", resp.msg))
    ELSE IF m.impl = "service" THEN Complete([m EXCEPT !.updated = resp.data], <<>>)
    ELSE Complete([m EXCEPT !.updated = resp.data],
                  AddedSpot(resp.data, Last(m.calls).arg[2]))

\* omlClient.addSpotToBlock settles: a failure is printed and swallowed.
OnAddSpot(m, resp) ==
    IF ~resp.ok
    THEN Complete([m EXCEPT !.console = Append(@, "reserve failed")], <<>>)
    ELSE IF m.impl = "service" THEN Complete([m EXCEPT !.updated = resp.data], <<>>)
    ELSE Complete([m EXCEPT !.updated = resp.data],
                  AddedSpot(resp.data, Last(m.calls).arg[2]))

\* ======================================================================= actions
Init ==
    /\ scenario \in Scenarios
    /\ impl \in {"service", "trigger"}
    /\ config \in Configs
    /\ mappingCache = [i \in Instances |-> NewMappingCache]
    /\ progressLog = [i \in Instances |-> <<>>]
    /\ delivered = [i \in Instances |-> <<>>]
    /\ sched = [last |-> 0, switches |-> 0]
    /\ run = [r \in Runs |-> IdleRun]

\* Init with any progressCallback the caller may configure.
InitAnyCallback ==
    /\ scenario \in Scenarios
    /\ impl \in {"service", "trigger"}
    /\ config \in AnyCallbackConfigs
    /\ mappingCache = [i \in Instances |-> NewMappingCache]
    /\ progressLog = [i \in Instances |-> <<>>]
    /\ delivered = [i \in Instances |-> <<>>]
    /\ sched = [last |-> 0, switches |-> 0]
    /\ run = [r \in Runs |-> IdleRun]

\* The event loop resumes invocation r: a switch when the invocation that ran
\* last is another one that has not returned yet.
Switches(r) == sched.last \notin {0, r} /\ run[sched.last].pc # "done"
MayRun(r) == Switches(r) => sched.switches < MaxSwitches

\* The invocation takes its step: its locals and the fields of its instance.
\* (The actions bind the Machine before and after the step to a value, m and
\* after, so that it is computed once.)
Commit(r, m) ==
    /\ MayRun(r)
    /\ sched' = [last |-> r, switches |-> sched.switches + (IF Switches(r) THEN 1 ELSE 0)]
    /\ mappingCache' = [mappingCache EXCEPT ![InstanceOf(r)] = m.cache]
    /\ progressLog' = [progressLog EXCEPT ![InstanceOf(r)] = m.log]
    /\ delivered' = [delivered EXCEPT ![InstanceOf(r)] = m.delivered]
    /\ run' = [run EXCEPT ![r] = Locals(m)]
    /\ UNCHANGED <<scenario, impl, config>>

HandleCampaignPublish(r) ==
    /\ run[r].pc = "idle"
    /\ scenario # "requests" => r = 1
    /\ \E campaign \in Campaigns, creatives \in CreativeLists :
          \E m \in {Machine(r)} : \E after \in {Begin(m, campaign, creatives)} :
              Commit(r, after)

LoginSettles(r) ==
    /\ run[r].pc = "login"
    /\ \E resp \in LoginResponses :
          \E m \in {Received(Machine(r), resp)} : \E after \in {OnLogin(m, resp)} :
              Commit(r, after)

LookupSettles(r) ==
    /\ run[r].pc = "lookup"
    /\ \E resp \in ListingResponses(Last(run[r].calls).op) :
          \E m \in {Received(Machine(r), resp)} : \E after \in {OnLookup(m, resp)} :
              Commit(r, after)

BookingSettles(r) ==
    /\ run[r].pc = "booking"
    /\ \E resp \in BookingResponses :
          \E m \in {Received(Machine(r), resp)} : \E after \in {OnBooking(m, resp)} :
              Commit(r, after)

BlockSettles(r) ==
    /\ run[r].pc = "block"
    /\ \E resp \in BlockResponses(Head(run[r].slots)) :
          \E m \in {Received(Machine(r), resp)} : \E after \in {OnBlock(m, resp)} :
              Commit(r, after)

CommercialsSettle(r) ==
    /\ run[r].pc = "commercials"
    /\ \E resp \in CommercialResponses :
          \E m \in {Received(Machine(r), resp)} : \E after \in {OnCommercials(m, resp)} :
              Commit(r, after)

MediaplansSettle(r) ==
    /\ run[r].pc = "mediaplans"
    /\ \E resp \in MediaplanResponses :
          \E m \in {Received(Machine(r), resp)} : \E after \in {OnMediaplans(m, resp)} :
              Commit(r, after)

AddSpotSettles(r) ==
    /\ run[r].pc = "addSpot"
    /\ \E resp \in AddSpotResponses :
          \E m \in {Received(Machine(r), resp)} : \E after \in {OnAddSpot(m, resp)} :
              Commit(r, after)

Next ==
    \E r \in Runs :
        \/ HandleCampaignPublish(r)
        \/ LoginSettles(r)
        \/ LookupSettles(r)
        \/ BookingSettles(r)
        \/ BlockSettles(r)
        \/ CommercialsSettle(r)
        \/ MediaplansSettle(r)
        \/ AddSpotSettles(r)

Spec == Init /\ [][Next]_vars
SpecAnyCallback == InitAnyCallback /\ [][Next]_vars

\* Every outstanding OML call eventually returns or throws.
Settles(r) ==
    \/ LoginSettles(r) \/ LookupSettles(r) \/ BookingSettles(r) \/ BlockSettles(r)
    \/ CommercialsSettle(r) \/ MediaplansSettle(r) \/ AddSpotSettles(r)
FairSpec == Spec /\ \A r \in Runs : WF_vars(Settles(r))

\* ======================================================================== claims
Returns(r) == run[r].pc # "done" /\ run'[r].pc = "done"
Done(r) == run[r].pc = "done"
Failed(r) == Done(r) /\ ~run[r].result.success /\ run[r].result.status = "failed"
Completed(r) == Done(r) /\ run[r].result.success /\ run[r].result.status = "complete"
EntriesOf(r) == SelectSeq(progressLog[InstanceOf(r)], LAMBDA e : e.at = r)
StepsOf(r) == {EntriesOf(r)[i].step : i \in 1..Len(EntriesOf(r))}
OpsOf(r) == [i \in 1..Len(run[r].calls) |-> run[r].calls[i].op]
ThrewIn(r, op) ==
    \E i \in 1..Len(run[r].replies) : run[r].replies[i].op = op /\ ~run[r].replies[i].ok
DictionaryOps == {"getAdvertisers", "getBrands", "getChannels", "getTargetAudiences"}
IsSuffix(t, s) == Len(t) <= Len(s) /\ SubSeq(s, Len(s) - Len(t) + 1, Len(s)) = t
IsPrefix(p, s) == Len(p) <= Len(s) /\ SubSeq(s, 1, Len(p)) = p

\* ---- C1
LoginThrew(r) == ThrewIn(r, "login")
C1_State ==
    \A r \in Runs : LoginThrew(r) =>
        /\ Failed(r)
        /\ run[r].result.error = <<"auth_error">> \o run[r].replies[1].msg
        /\ OpsOf(r) = <<"login">>
C1_Step ==
    \A r \in Runs : Returns(r) /\ ~Last(run'[r].replies).ok /\ Last(run'[r].replies).op = "login" =>
        /\ Last(progressLog'[InstanceOf(r)]).step = "error"
        /\ Last(progressLog'[InstanceOf(r)]).progress = -1
\* C1: when omlClient.login throws, the invocation returns a failed result whose
\* error carries the message of the login error, the last entry of the progress
\* log at its return is the error entry with progress -1, and login is the only
\* OML call the invocation has issued.
C1_LoginFailure == [](C1_State) /\ [][C1_Step]_vars
C1_Witness == \E r \in Runs : LoginThrew(r) /\ Done(r)

\* ---- C2
BrandMissing(r) ==
    \E i \in 1..Len(run[r].replies) :
        run[r].replies[i].op = "getBrands" /\ run[r].replies[i].empty
HappyPath(r) ==
    /\ Done(r)
    /\ \A i \in 1..Len(run[r].replies) :
          run[r].replies[i].ok
          /\ (run[r].replies[i].op \in DictionaryOps => ~run[r].replies[i].empty)
    /\ BlockSearchChannel \in Range(ChannelIdsOf(run[r].campaign))
    /\ run[r].commercials # <<>>
    /\ "addSpotToBlock" \in Range(OpsOf(r))
C3_State == \A r \in Runs : HappyPath(r) => Completed(r)
C3_Step ==
    \A r \in Runs : Returns(r) /\ run'[r].result.success =>
        /\ Last(progressLog'[InstanceOf(r)]).step = "complete"
        /\ Last(progressLog'[InstanceOf(r)]).progress = 100
\* C3: an invocation whose OML calls all succeed, whose dictionary listings all
\* return an entity, whose campaign has a placement on the block-search channel,
\* one of whose creatives is matched and whose spot is attached returns
\* success = true, status = "complete", and the last entry of the progress log at
\* its return is complete (100).
C3_HappyPathCompletes == [](C3_State) /\ [][C3_Step]_vars
C3_Witness == \E r \in Runs : impl = "service" /\ HappyPath(r) /\ Completed(r)

\* ---- C4
CategoryOfOp(op) == CHOOSE c \in Categories : ListingOp(c) = op
C4_State ==
    \A r \in Runs : \A i, j \in 1..Len(run[r].calls) :
        (i # j /\ run[r].calls[i].op \in DictionaryOps) => run[r].calls[i] # run[r].calls[j]
C4_Step ==
    \A r \in Runs :
        (Len(run'[r].calls) > Len(run[r].calls) /\ Last(run'[r].calls).op \in DictionaryOps) =>
            ~MapHas(mappingCache'[InstanceOf(r)][CategoryOfOp(Last(run'[r].calls).op)],
                    Last(run'[r].calls).arg[1])
\* C4: an invocation issues a dictionary listing for a local id only when the id
\* has no mapping at that moment, and never issues two listings for the same id
\* of the same category.
C4_Memoization == [](C4_State) /\ [][C4_Step]_vars
C4_Witness ==
    \E r \in Runs :
        /\ impl = "service" /\ Completed(r)
        /\ ChannelIdsOf(run[r].campaign) = <<BlockSearchChannel, BlockSearchChannel>>
        /\ Len(SelectSeq(OpsOf(r), LAMBDA o : o = "getChannels")) = 1

\* ---- C5
\* C5: a mapping entry, once set, is never removed and never replaced by a
\* different remote id.
C5_WriteOnce ==
    [][\A i \in Instances, c \in Categories : \A k \in MapKeys(mappingCache[i][c]) :
          /\ MapHas(mappingCache'[i][c], k)
          /\ MapGet(mappingCache'[i][c], k) = MapGet(mappingCache[i][c], k)]_vars

\* ---- C6
\* C6: every invocation starts on an empty identifier cache and an empty
\* progress log.
C6_FreshState ==
    [][\A r \in Runs : (run[r].pc = "idle" /\ run'[r].pc # "idle") =>
          /\ mappingCache[InstanceOf(r)] = NewMappingCache
          /\ progressLog[InstanceOf(r)] = <<>>]_vars

\* ---- C7
ErrorEntriesOf(r) == SelectSeq(EntriesOf(r), LAMBDA e : e.step = "error")
C7_State ==
    \A r \in Runs : Len(ErrorEntriesOf(r)) = IF Done(r) /\ ~run[r].result.success THEN 1 ELSE 0
C7_Step ==
    \A r \in Runs : Returns(r) /\ ~run'[r].result.success =>
        LET log == progressLog'[InstanceOf(r)]
            res == run'[r].result
            n == Min(3, Len(log))
        IN  /\ Last(log) = [step |-> "error", progress |-> -1, at |-> r,
                            message |-> <<"integration_error">> \o res.error]
            /\ res.status = "failed"
            /\ Last(run'[r].replies).ok \/ IsSuffix(Last(run'[r].replies).msg, res.error)
            /\ res.details.message = res.error
            /\ res.details.trail = [i \in 1..n |-> log[Len(log) - n + i]]
\* C7: an invocation that fails logs exactly one error entry (progress -1) and
\* returns success = false, status = "failed", the message of the thrown error,
\* and details made of that message and the last 3 entries of the progress log
\* (all of them when there are fewer), in log order.
C7_FailureResult == [](C7_State) /\ [][C7_Step]_vars
C7_Witness ==
    \E r \in Runs : Failed(r) /\ Len(run[r].result.details.trail) = 3
                    /\ run[r].result.details.trail[1].step = "authentication"

\* ---- C8
Phases == <<"Idle", "Authenticating", "SyncingDictionaries", "FindingBlocks",
            "MappingCommercials", "ReservingSpots", "Complete">>
TriggerPhases == <<"Idle", "Authenticating", "SyncingDictionaries",
                   "MappingCommercials", "ReservingSpots", "Complete">>
InOrder(p, order) ==
    \/ IsPrefix(p, order)
    \/ Last(p) = "Failed" /\ Len(p) <= Len(order) /\ IsPrefix(SubSeq(p, 1, Len(p) - 1), order)
\* C8 as stated: every invocation passes through Idle, Authenticating,
\* SyncingDictionaries, FindingBlocks, MappingCommercials, ReservingSpots,
\* Complete in this order without skipping one, or leaves the order for Failed.
C8_PhaseOrder == \A r \in Runs : InOrder(run[r].phases, Phases)
\* C8 amended: the order holds for IntegrationService; an invocation of
\* LightboxCampaignTrigger follows the same order without FindingBlocks.
C8_PhaseOrderByEntryPoint ==
    \A r \in Runs : InOrder(run[r].phases, IF impl = "service" THEN Phases ELSE TriggerPhases)
C8_Witness == \E r \in Runs : impl = "trigger" /\ Completed(r) /\ run[r].phases = TriggerPhases

\* ---- C9
\* C9: when omlClient.addSpotToBlock throws, the invocation still returns
\* success = true, status = "complete" and logs no error entry.
C9_AttachFailureSwallowed ==
    \A r \in Runs : ThrewIn(r, "addSpotToBlock") =>
        Completed(r) /\ ErrorEntriesOf(r) = <<>> /\ "reserve_spots" \in StepsOf(r)
C9_Witness == \E r \in Runs : ThrewIn(r, "addSpotToBlock")

\* ---- C10
\* C10: an invocation in which an OML call other than addSpotToBlock throws
\* returns a failed result.
C10_OtherFailuresFail ==
    \A r \in Runs :
        (\E i \in 1..Len(run[r].replies) :
            ~run[r].replies[i].ok /\ run[r].replies[i].op # "addSpotToBlock") => Failed(r)
C10_Witness ==
    \E r \in Runs : ThrewIn(r, "getBlockById") /\ Failed(r) /\ Len(run[r].blocks) >= 1

\* ---- C11
LoginCalls(r) == Len(SelectSeq(OpsOf(r), LAMBDA o : o = "login"))
\* C11: an invocation calls login exactly once, and after one of its OML calls
\* has thrown it issues no further call (the failed call is never issued
\* again), whatever config.maxRetries is.
C11_NoRetry ==
    \A r \in Runs :
        /\ run[r].pc # "idle" => LoginCalls(r) = 1
        /\ \A i \in 1..Len(run[r].replies) : ~run[r].replies[i].ok => i = Len(run[r].calls)
C11_Witness ==
    \E r \in Runs : /\ scenario = "configuration" /\ config.maxRetries > 0
                    /\ Done(r) /\ ThrewIn(r, "getChannelBooking")

\* ---- C12
RECURSIVE SumOver(_)
SumOver(ns) == IF ns = <<>> THEN 0 ELSE Head(ns) + SumOver(Tail(ns))
\* The program releases of a grid, date after date.
ReleasesOf(grid) == Flatten(grid)
Contribution(release) == Min(5, Len(release))
ContributionsBefore(grid, k) ==
    SumOver([i \in 1..(k - 1) |-> Contribution(ReleasesOf(grid)[i])])
\* The slots already fetched (the blocks to return) followed by those to fetch.
SearchOf(r) == [i \in 1..Len(run[r].blocks) |-> run[r].blocks[i].id] \o run[r].slots
BlocksReturned(r) == impl = "service" /\ "find_blocks" \in StepsOf(r)
\* C12: for every booking grid, each program release contributes to the blocks
\* of findBlocksForPlacement its first min(5, number of blocks) blocks and no
\* other, in grid order; a release without blocks contributes none.
C12_FiveSlotsPerRelease ==
    \A r \in Runs :
        LET grid == run[r].grid
            n == Len(ReleasesOf(grid))
        IN  /\ Len(SearchOf(r)) = ContributionsBefore(grid, n + 1)
            /\ \A k \in 1..n : \A j \in 1..Contribution(ReleasesOf(grid)[k]) :
                  SearchOf(r)[ContributionsBefore(grid, k) + j] = ReleasesOf(grid)[k][j]
            /\ BlocksReturned(r) => run[r].slots = <<>>
C12_Witness ==
    \E r \in Runs :
        /\ BlocksReturned(r)
        /\ \E k \in 1..Len(ReleasesOf(run[r].grid)) : Len(ReleasesOf(run[r].grid)[k]) > 5
        /\ \E k \in 1..Len(ReleasesOf(run[r].grid)) : Len(ReleasesOf(run[r].grid)[k]) = 0
        /\ Len(run[r].blocks) = 5

\* ---- C13
CreativeIdsOf(r) == [i \in 1..Len(run[r].creatives) |-> run[r].creatives[i].id]
CommercialsMapped(r) == impl = "service" /\ "map_commercials" \in StepsOf(r)
EntityTypes == Categories \cup {"commercials"}
OmlIds == RemoteIds \cup {3}
\* The local ids mapped to omlId, and the position of an entry in its map.
OwnersOf(cache, entityType, omlId) ==
    IF entityType \notin Categories THEN {}
    ELSE {k \in MapKeys(cache[entityType]) : MapGet(cache[entityType], k) = omlId}
PositionOf(mapping, k) == CHOOSE i \in 1..Len(mapping) : mapping[i].k = k
\* C14 as stated: the lookup returns the only local id mapped to omlId, null
\* when there is none or the category does not exist, and leaves the cache as
\* it was.
C14_ReverseLookup ==
    \A i \in Instances, entityType \in EntityTypes, omlId \in OmlIds :
        LET got == GetReverseMappedId(mappingCache[i], entityType, omlId)
            owners == OwnersOf(mappingCache[i], entityType, omlId)
        IN  /\ got.cache = mappingCache[i]
            /\ owners = {} => got.value = <<>>
            /\ owners # {} => got.value # <<>> /\ owners = {got.value[1]}
\* What the lookup does in every reachable state: of the local ids mapped to
\* omlId it returns the one inserted first.
ReverseLookupReturnsFirst ==
    \A i \in Instances, entityType \in EntityTypes, omlId \in OmlIds :
        LET got == GetReverseMappedId(mappingCache[i], entityType, omlId)
            owners == OwnersOf(mappingCache[i], entityType, omlId)
        IN  /\ got.cache = mappingCache[i]
            /\ owners = {} => got.value = <<>>
            /\ owners # {} =>
                  /\ got.value # <<>> /\ got.value[1] \in owners
                  /\ \A k \in owners : PositionOf(mappingCache[i][entityType], got.value[1])
                                         <= PositionOf(mappingCache[i][entityType], k)

\* ---- C15
\* C15: within one category no two local ids are mapped to the same remote id.
C15_Injective ==
    \A i \in Instances, c \in Categories : \A k1, k2 \in MapKeys(mappingCache[i][c]) :
        k1 # k2 => MapGet(mappingCache[i][c], k1) # MapGet(mappingCache[i][c], k2)

\* ---- C16
Outstanding(r) == Len(run[r].calls) - Len(run[r].replies)
\* C16: an invocation has at most one OML call outstanding at any time: a call
\* is issued only when all earlier calls of the invocation have been answered,
\* and none is outstanding before the invocation starts or after it returns.
C16_OneCallOutstanding ==
    \A r \in Runs :
        /\ Outstanding(r) \in {0, 1}
        /\ Outstanding(r) = 1 <=> run[r].pc \notin {"idle", "done"}
C16_Witness ==
    \E r \in Runs :
        /\ DictionaryOps \subseteq Range(OpsOf(r))
        /\ run[r].pc = "block" /\ Len(run[r].blocks) >= 1
        /\ Outstanding(r) = 1

\* ---- C17
\* C17: when a progress callback is configured, the entries it has been called
\* with are, in every state, exactly the entries of the progress log, in log
\* order: every append is followed by one call with the appended entry before
\* anything else happens.
C17_CallbackPerEntry ==
    \A i \in Instances : config.progressCallback # "none" => delivered[i] = progressLog[i]
C17_Witness ==
    \E r \in Runs :
        /\ scenario = "configuration" /\ config.progressCallback = "prints"
        /\ Completed(r)
        /\ Len(delivered[InstanceOf(r)]) >= 6
        /\ Last(delivered[InstanceOf(r)]).step = "complete"

\* ---- C18
\* C18: a complete result carries commercial_ids, the ids of the commercials
\* findAndMapCommercials returned, and spot_ids, the ids of the spots
\* reserveSpots returned.
C18_ResultCarriesIds ==
    \A r \in Runs : Completed(r) =>
        /\ {"commercial_ids", "spot_ids"} \subseteq DOMAIN run[r].result
        /\ run[r].result.commercial_ids = run[r].commercials
        /\ run[r].result.spot_ids = [i \in 1..Len(run[r].spots) |-> run[r].spots[i].id]
\* The variant that does carry them.
TriggerResultCarriesIds ==
    impl = "trigger" => C18_ResultCarriesIds

\* ---- C19
\* The calls an invocation can issue: login, one listing per id to synchronize,
\* getCommercials, getMediaplans, addSpotToBlock, and per block search
\* getChannelBooking and one getBlockById per selected slot.  IntegrationService
\* searches once; LightboxCampaignTrigger once per media plan.
CallBound(r) ==
    4 + Len(SyncWork(run[r].campaign, run[r].creatives))
      + (IF impl = "service"
         THEN 1 + ContributionsBefore(run[r].grid, Len(ReleasesOf(run[r].grid)) + 1)
         ELSE MaxPlans * (1 + MaxDates * MaxReleases * SlotsPerRelease))
\* C19: when every OML call eventually returns or throws, every invocation that
\* has started eventually returns a result, complete or failed; the number of
\* calls it issues is bounded by the sizes of its inputs and of the responses.
C19_Terminates ==
    /\ \A r \in Runs : (run[r].pc # "idle") ~> (Done(r) /\ (Completed(r) \/ Failed(r)))
    /\ [](\A r \in Runs : Len(run[r].calls) <= CallBound(r))
C19_Witness ==
    \E r \in Runs : Completed(r) /\ Len(run[r].blocks) >= 5 /\ Len(run[r].calls) >= 14

\* ---- C20
DictionariesDone(r) == "sync_dictionaries" \in StepsOf(r)
Mapped(r, category, id) == MapHas(mappingCache[InstanceOf(r)][category], id)
PlacementsMapped(r) ==
    \A i \in 1..Len(run[r].campaign.placements) :
        LET p == run[r].campaign.placements[i]
        IN  /\ Mapped(r, "brands", p.brand_id)
            /\ Mapped(r, "channels", p.channel_id)
            /\ Mapped(r, "targetAudiences", p.target_audience_id)
\* C20 as stated: once syncReferenceDictionaries has returned, the cache maps
\* the campaign's advertiser, the brand, channel and target audience of every
\* placement, and the brand and the advertiser of every creative.
C20_AllReferencesMapped ==
    \A r \in Runs : DictionariesDone(r) =>
        /\ Mapped(r, "advertisers", run[r].campaign.advertiser_id)
        /\ PlacementsMapped(r)
        /\ \A i \in 1..Len(run[r].creatives) :
              /\ Mapped(r, "brands", run[r].creatives[i].brand_id)
              /\ Mapped(r, "advertisers", run[r].creatives[i].advertiser_id)
\* C20 amended: once syncReferenceDictionaries has returned, the cache maps
\* the campaign's advertiser, the brand, channel and target audience of every
\* placement, and the brand of every creative (the advertiser of a creative is
\* not synchronized).
C20_ReferencesMapped ==
    \A r \in Runs : DictionariesDone(r) =>
        /\ Mapped(r, "advertisers", run[r].campaign.advertiser_id)
        /\ PlacementsMapped(r)
        /\ \A i \in 1..Len(run[r].creatives) :
              Mapped(r, "brands", run[r].creatives[i].brand_id)
C20_Witness ==
    \E r \in Runs :
        /\ DictionariesDone(r)
        /\ Range(ChannelIdsOf(run[r].campaign)) = ChannelIds
        /\ \E i \in 1..Len(run[r].creatives) :
              /\ run[r].creatives[i].advertiser_id # run[r].campaign.advertiser_id
              /\ Mapped(r, "brands", run[r].creatives[i].brand_id)
              /\ ~Mapped(r, "advertisers", run[r].creatives[i].advertiser_id)

\* ---------------------------------------------------------------------------
\* C21: the OML id recorded for a local entity is the id of an OML entity that
\* bears the local entity's name: every entry of the cache pairs two entities
\* of the same name.
C21_MappedByName ==
    \A i \in Instances : \A category \in Categories :
        \A lbxId \in MapKeys(mappingCache[i][category]) :
            OmlName(category, MapGet(mappingCache[i][category], lbxId))
                = LocalName(category, lbxId)

\* ---------------------------------------------------------------------------
\* C22: the lookups of a run are issued category by category, in the order
\* advertisers, brands, channels, target audiences, and a lookup that fails
\* (it throws or finds nothing) is the last call of the run.
CategoryRank(op) ==
    CASE op = "getAdvertisers" -> 1
      [] op = "getBrands" -> 2
      [] op = "getChannels" -> 3
      [] op = "getTargetAudiences" -> 4
LookupFailed(reply) == reply.op \in DictionaryOps /\ (~reply.ok \/ reply.empty)
C22_CategoryOrder ==
    \A r \in Runs :
        /\ LET lookups == SelectSeq(run[r].calls, LAMBDA c : c.op \in DictionaryOps)
           IN  \A k \in 1..(Len(lookups) - 1) :
                   CategoryRank(lookups[k].op) <= CategoryRank(lookups[k + 1].op)
        /\ \A i \in 1..Len(run[r].replies) :
              LookupFailed(run[r].replies[i]) => i = Len(run[r].calls)
C22_Witness ==
    \E r \in Runs :
        /\ Failed(r)
        /\ Len(run[r].calls) = 5
        /\ OpsOf(r)[2] = "getAdvertisers" /\ OpsOf(r)[3] = "getBrands"
        /\ OpsOf(r)[4] = "getBrands" /\ OpsOf(r)[5] = "getChannels"
        /\ LookupFailed(run[r].replies[5])

\* ---------------------------------------------------------------------------
\* C23: a lookup that fails records nothing and undoes nothing: the keys of a
\* cache are exactly the local ids whose lookup succeeded, and the step in which
\* a lookup fails ends the run failed and leaves the whole cache as it was, so
\* neither the failing id nor an id after it in the list is recorded by it.
LookedUpBy(r, category) ==
    {run[r].calls[n].arg[1] :
        n \in {k \in 1..Len(run[r].replies) :
                  /\ run[r].replies[k].op = ListingOp(category)
                  /\ ~LookupFailed(run[r].replies[k])}}
LookedUp(i, category) ==
    UNION {LookedUpBy(r, category) : r \in {q \in Runs : InstanceOf(q) = i}}
LookupFails(r) ==
    /\ Len(run'[r].replies) > Len(run[r].replies)
    /\ LookupFailed(Last(run'[r].replies))
C23_State ==
    \A r \in Runs : \A category \in Categories :
        MapKeys(mappingCache[InstanceOf(r)][category]) = LookedUp(InstanceOf(r), category)
C23_Step ==
    \A r \in Runs : LookupFails(r) =>
        /\ mappingCache' = mappingCache
        /\ Failed(r)'
        /\ run'[r].work = run[r].work
C23_NoRollback == [](C23_State) /\ [][C23_Step]_vars
C23_Witness ==
    \E r \in Runs :
        /\ Failed(r)
        /\ LookupFailed(Last(run[r].replies))
        /\ Len(run[r].work) >= 2
        /\ Last(run[r].calls).op = "getBrands"
        /\ Cardinality(LookedUpBy(r, "brands")) = 1
        /\ Cardinality(LookedUpBy(r, "advertisers")) = 1

\* ---------------------------------------------------------------------------
\* C24: findBlocksForPlacement fetches the selected slots of the grid one by
\* one in grid order (dates, then releases, then the first five slots of a
\* release) and returns the fetched blocks in that order, one per selected slot,
\* a slot id that occurs twice being fetched and returned twice.
GridOrder(grid) ==
    Flatten([k \in 1..Len(ReleasesOf(grid)) |->
                SubSeq(ReleasesOf(grid)[k], 1, Min(5, Len(ReleasesOf(grid)[k])))])
\* The getBlockById calls of the search under way (since the last grid request).
LastBooking(r) ==
    IF \E i \in 1..Len(run[r].calls) : run[r].calls[i].op = "getChannelBooking"
    THEN CHOOSE i \in 1..Len(run[r].calls) :
            /\ run[r].calls[i].op = "getChannelBooking"
            /\ \A j \in (i + 1)..Len(run[r].calls) : run[r].calls[j].op # "getChannelBooking"
    ELSE 0
FetchesOf(r) ==
    SelectSeq(SubSeq(run[r].calls, LastBooking(r) + 1, Len(run[r].calls)),
              LAMBDA c : c.op = "getBlockById")
C24_GridOrder ==
    \A r \in Runs :
        LET selected == GridOrder(run[r].grid)
            fetches == FetchesOf(r)
            blocks == run[r].blocks
        IN  /\ Len(fetches) \in {Len(blocks), Len(blocks) + 1}
            /\ Len(fetches) <= Len(selected)
            /\ \A i \in 1..Len(fetches) : fetches[i].arg = <<selected[i]>>
            /\ \A i \in 1..Len(blocks) : blocks[i].id = selected[i]
            /\ BlocksReturned(r) => Len(blocks) = Len(selected) /\ Len(fetches) = Len(selected)
C24_Witness ==
    \E r \in Runs :
        /\ BlocksReturned(r)
        /\ Len(ReleasesOf(run[r].grid)) = 2
        /\ Len(run[r].blocks) = 2
        /\ run[r].blocks[1] = run[r].blocks[2]
        /\ Len(FetchesOf(r)) = 2

\* ---------------------------------------------------------------------------
\* C25: findBlocksForPlacement resolves local channel 9 before any remote call:
\* a grid or block request is issued only when channel 9 is mapped; entered
\* without that mapping it throws and the run ends failed with no such request
\* issued; so a run of IntegrationService on an empty cache whose campaign has
\* no placement on channel 9 ends failed once its dictionaries are synchronized.
SearchCalls(r) ==
    {i \in 1..Len(run[r].calls) : run[r].calls[i].op \in {"getChannelBooking", "getBlockById"}}
NoChannelMessage == NoMappingMessage("channels", BlockSearchChannel)
SearchEntered(r) ==
    IF impl = "service" THEN DictionariesDone(r)
    ELSE \E i \in 1..Len(run[r].mediaplans) : run[r].mediaplans[i].commercials # <<>>
C25_ChannelResolvedFirst ==
    \A r \in Runs :
        /\ SearchCalls(r) # {} => Mapped(r, "channels", BlockSearchChannel)
        /\ (SearchEntered(r) /\ ~Mapped(r, "channels", BlockSearchChannel)) =>
              /\ Failed(r)
              /\ SearchCalls(r) = {}
              /\ run[r].result.error =
                    IF impl = "service" THEN Wrap("find_blocks_error", NoChannelMessage)
                    ELSE Wrap("reserve_error", Wrap("find_blocks_error", NoChannelMessage))
        /\ ( /\ impl = "service"
             /\ DictionariesDone(r)
             /\ \A q \in Runs \ {r} : run[q].pc = "idle"
             /\ BlockSearchChannel \notin Range(ChannelIdsOf(run[r].campaign)) ) =>
              Failed(r) /\ SearchCalls(r) = {}
C25_Witness ==
    \E r \in Runs :
        /\ impl = "service"
        /\ Failed(r)
        /\ DictionariesDone(r)
        /\ ChannelIdsOf(run[r].campaign) = <<4>>
        /\ Mapped(r, "channels", 4)
        /\ SearchCalls(r) = {}

\* ---------------------------------------------------------------------------
\* C26: a run of IntegrationService calls addSpotToBlock at most once, and only
\* when the fetched catalog holds media plan 42338 with at least one
\* commercial; the call then carries that plan's first commercial and its id.
AttachCalls(r) == {i \in 1..Len(run[r].calls) : run[r].calls[i].op = "addSpotToBlock"}
TargetPlans(r) == SelectSeq(run[r].mediaplans, LAMBDA p : p.id = 42338)
C26_AttachOnlyTargetPlan ==
    \A r \in Runs : impl = "service" =>
        /\ Cardinality(AttachCalls(r)) <= 1
        /\ \A i \in AttachCalls(r) :
              /\ TargetPlans(r) # <<>>
              /\ TargetPlans(r)[1].commercials # <<>>
              /\ run[r].calls[i].arg[2] = TargetPlans(r)[1].commercials[1]
              /\ run[r].calls[i].arg[3] = 42338
        /\ (TargetPlans(r) = <<>> \/ TargetPlans(r)[1].commercials = <<>>) => AttachCalls(r) = {}
C26_Witness ==
    \E r \in Runs :
        /\ impl = "service"
        /\ Completed(r)
        /\ Len(run[r].mediaplans) = 2
        /\ run[r].mediaplans[1] = [id |-> 7, commercials |-> <<201>>]
        /\ run[r].mediaplans[2] = [id |-> 42338, commercials |-> <<202, 201>>]
        /\ \E i \in AttachCalls(r) : run[r].calls[i].arg[2] = 202

\* ---------------------------------------------------------------------------
\* C27: whenever reserveSpots of IntegrationService returns, it returns the
\* empty list: nothing was found, the attachment failed, or it succeeded.
ReserveReturned(r) == "reserve_spots" \in StepsOf(r)
AttachSucceeded(r) == \E i \in AttachCalls(r) : i <= Len(run[r].replies) /\ run[r].replies[i].ok
AttachFailed(r) == \E i \in AttachCalls(r) : i <= Len(run[r].replies) /\ ~run[r].replies[i].ok
SpotsOfCommercial(r) ==
    SelectSeq(run[r].updated,
              LAMBDA s : \E i \in AttachCalls(r) : s.commercial_id = run[r].calls[i].arg[2])
C28_TriggerReturnsAddedSpot ==
    \A r \in Runs : impl = "trigger" =>
        /\ Len(run[r].spots) <= 1
        /\ Cardinality(AttachCalls(r)) <= 1
        /\ (ReserveReturned(r) /\ AttachSucceeded(r)) =>
              run[r].spots = IF SpotsOfCommercial(r) = <<>> THEN <<>>
                             ELSE <<SpotsOfCommercial(r)[1]>>
        /\ ~AttachSucceeded(r) => run[r].spots = <<>>
        /\ (Done(r) /\ AttachFailed(r)) => ReserveReturned(r) /\ Completed(r)
C28_Witness ==
    \E r \in Runs :
        /\ impl = "trigger"
        /\ ReserveReturned(r)
        /\ AttachSucceeded(r)
        /\ Len(run[r].updated) = 1
        /\ run[r].spots = run[r].updated

\* ---------------------------------------------------------------------------
\* The media plans findCommercialForPlacement searches blocks for (those with a
\* commercial), the grid request of each search, and whether it found a block.
Candidates(r) == SelectSeq(run[r].mediaplans, LAMBDA p : p.commercials # <<>>)
BookingPositions(r) ==
    SelectSeq([i \in 1..Len(run[r].calls) |-> i],
              LAMBDA i : run[r].calls[i].op = "getChannelBooking")
SearchFound(r, k) ==
    LET p == BookingPositions(r)[k]
    IN  p < Len(run[r].calls) /\ run[r].calls[p + 1].op = "getBlockById"
Qualifying(r) == {k \in 1..Len(BookingPositions(r)) : SearchFound(r, k)}
CandidateOf(r, k) ==
    <<[block |-> [id |-> run[r].calls[BookingPositions(r)[k] + 1].arg[1]],
       mediaplan |-> Candidates(r)[k]]>>
CommercialSearchReturned(r) ==
    /\ impl = "trigger"
    /\ \E i \in 1..Len(run[r].replies) : run[r].replies[i].op = "getMediaplans" /\ run[r].replies[i].ok
    /\ run[r].pc \in {"addSpot", "done"}
    /\ ~Failed(r)
\* C29: findCommercialForPlacement returns the first media plan of the catalog
\* that has a commercial and for which a block was found, with the first block
\* found for it, and nothing when no media plan qualifies.
C29_FirstCandidate ==
    \A r \in Runs : CommercialSearchReturned(r) =>
        /\ Len(BookingPositions(r)) = Len(Candidates(r))
        /\ run[r].chosen =
              IF Qualifying(r) = {} THEN <<>>
              ELSE CandidateOf(r, CHOOSE k \in Qualifying(r) : \A j \in Qualifying(r) : k <= j)
\* What the loop does: without a break, the last qualifying media plan stays.
FindCommercialTakesLast ==
    \A r \in Runs : CommercialSearchReturned(r) =>
        /\ Len(BookingPositions(r)) = Len(Candidates(r))
        /\ run[r].chosen =
              IF Qualifying(r) = {} THEN <<>>
              ELSE CandidateOf(r, CHOOSE k \in Qualifying(r) : \A j \in Qualifying(r) : k >= j)
        /\ \A i \in AttachCalls(r) :
              run[r].calls[i].arg = <<run[r].chosen[1].block.id,
                                      run[r].chosen[1].mediaplan.commercials[1],
                                      run[r].chosen[1].mediaplan.id>>

\* ---------------------------------------------------------------------------
\* C30: the progress log is append-only: logProgress adds exactly one entry at
\* the end, and every step of the program leaves each log as it was or extends
\* it at its end; building the error details of a failure removes nothing.
C30_LogProgressAppendsOne ==
    \A r \in Runs :
        LET m == Machine(r)
        IN  LogProgress(m, "step", 0, <<"message">>).log
                = Append(m.log, ProgressEntry(m, "step", 0, <<"message">>))
C30_Step ==
    \A i \in Instances :
        /\ IsPrefix(progressLog[i], progressLog'[i])
        /\ \A r \in Runs : Returns(r) /\ InstanceOf(r) = i /\ Failed(r)' =>
              /\ Len(progressLog'[i]) > Len(progressLog[i])
              /\ Last(progressLog'[i]).step = "error"
              /\ IsSuffix(run'[r].result.details.trail, progressLog'[i])
C30_AppendOnly == [](C30_LogProgressAppendsOne) /\ [][C30_Step]_vars
C30_Witness ==
    \E i \in Instances : \E j, k \in 1..Len(progressLog[i]) :
        /\ j < k
        /\ Len(progressLog[i]) > DetailsTrail + 2
        /\ progressLog[i][j].step = "error"
        /\ progressLog[i][k].at # progressLog[i][j].at

\* ---------------------------------------------------------------------------
\* C31: every progress entry has a percentage in 0..100 or -1, and the entries
\* of one invocation of IntegrationService are a prefix of start(0),
\* authentication(5), sync_dictionaries(15), find_blocks(30),
\* map_commercials(50), reserve_spots(80), complete(100), followed by one
\* error(-1) entry when the invocation fails; complete or error is logged when
\* and only when the invocation returns, and is its last entry.
ServicePipeline ==
    << <<"start", 0>>, <<"authentication", 5>>, <<"sync_dictionaries", 15>>,
       <<"find_blocks", 30>>, <<"map_commercials", 50>>, <<"reserve_spots", 80>>,
       <<"complete", 100>> >>
LoggedBy(r) ==
    LET entries == EntriesOf(r)
    IN  [i \in 1..Len(entries) |-> <<entries[i].step, entries[i].progress>>]
C31_ProgressSequence ==
    /\ \A i \in Instances : \A k \in 1..Len(progressLog[i]) :
          progressLog[i][k].progress \in (0..100) \cup {-1}
    /\ \A r \in Runs : impl = "service" =>
          LET logged == LoggedBy(r)
              n == Len(logged)
          IN  /\ \/ IsPrefix(logged, ServicePipeline)
                 \/ /\ n >= 2
                    /\ logged[n] = <<"error", -1>>
                    /\ n - 1 < Len(ServicePipeline)
                    /\ IsPrefix(SubSeq(logged, 1, n - 1), ServicePipeline)
              /\ Done(r) <=> (n > 0 /\ logged[n][1] \in {"complete", "error"})
              /\ Completed(r) <=> (n > 0 /\ logged[n][1] = "complete")
C31_Witness ==
    \E r \in Runs :
        /\ impl = "service"
        /\ Failed(r)
        /\ Len(LoggedBy(r)) = 6
        /\ LoggedBy(r)[5] = <<"map_commercials", 50>>

\* ---------------------------------------------------------------------------
\* C32: handleCampaignPublish never rejects: whatever the OML client and the
\* configured progress callback do, an invocation that ends has resolved to an
\* IntegrationResult, complete or failed.
C32_NeverRejects ==
    \A r \in Runs : Done(r) => run[r].result.status \in {"complete", "failed"}

\* ---------------------------------------------------------------------------
\* C33: every result of handleCampaignPublish has success = true exactly when
\* its status is complete and success = false exactly when it is failed;
\* partial is never produced; a failed result has error and details, a
\* complete result has no error.
C33_ResultShape ==
    \A r \in Runs : Done(r) =>
        LET result == run[r].result
        IN  /\ result.status \in {"complete", "failed"}
            /\ result.success <=> result.status = "complete"
            /\ ~result.success <=> result.status = "failed"
            /\ result.status = "failed" => {"error", "details"} \subseteq DOMAIN result
            /\ result.status = "complete" => "error" \notin DOMAIN result
C33_Witness ==
    \E r \in Runs :
        /\ Failed(r)
        /\ run[r].result.details.message = run[r].result.error
        /\ Len(run[r].result.details.trail) = DetailsTrail
        /\ "getMediaplans" \in Range(OpsOf(r))

\* ---------------------------------------------------------------------------
\* C34: a result with success = true and status complete is returned only by
\* an invocation whose addSpotToBlock call returned successfully.
C34_CompleteMeansReserved ==
    \A r \in Runs : Completed(r) => AttachSucceeded(r)
\* ---------------------------------------------------------------------------
\* C35: addSpotToBlock is called only with the id of the first block that
\* findBlocksForPlacement returned earlier in the invocation; an invocation
\* whose block search returned no block does not call it.
FetchedBefore(r, i) ==
    {run[r].calls[k].arg[1] :
        k \in {j \in 1..(i - 1) : run[r].calls[j].op = "getBlockById" /\ run[r].replies[j].ok}}
C35_AttachToFoundBlock ==
    \A r \in Runs : \A i \in AttachCalls(r) :
        /\ run[r].calls[i].arg[1] \in FetchedBefore(r, i)
        /\ impl = "service" =>
              run[r].blocks # <<>> /\ run[r].calls[i].arg[1] = run[r].blocks[1].id
        /\ impl = "trigger" =>
              run[r].chosen # <<>> /\ run[r].calls[i].arg[1] = run[r].chosen[1].block.id

\* ---------------------------------------------------------------------------
\* C36: on one instance, however its invocations interleave, a local id is
\* looked up at most once in all (a lookup that failed apart) and its mapping
\* is written at most once.
LookupsBy(r, category, lbxId) ==
    {n \in 1..Len(run[r].calls) :
        /\ run[r].calls[n] = [op |-> ListingOp(category), arg |-> <<lbxId>>]
        /\ n <= Len(run[r].replies) => ~LookupFailed(run[r].replies[n])}
LookupsOf(i, category, lbxId) ==
    UNION {{<<r, n>> : n \in LookupsBy(r, category, lbxId)} :
              r \in {q \in Runs : InstanceOf(q) = i}}
LocalIds ==
    UNION {{p.channel_id, p.brand_id, p.target_audience_id} : p \in Placements}
    \cup {c.brand_id : c \in Creatives} \cup AdvertiserIds
C36_InterleavedMemoization ==
    \A i \in Instances, category \in Categories, lbxId \in LocalIds :
        Cardinality(LookupsOf(i, category, lbxId)) <= 1

\* ---------------------------------------------------------------------------
\* C37: the entries listed in the details of a failed result were all logged
\* by the invocation that failed.
C37_OwnEntriesInDetails ==
    \A r \in Runs : Failed(r) =>
        \A k \in 1..Len(run[r].result.details.trail) : run[r].result.details.trail[k].at = r

\* ---------------------------------------------------------------------------
\* C38: getMappedIdOrThrow returns the cached OML id when the category exists
\* and holds the local id, throws otherwise (unknown category or unmapped id),
\* and leaves the cache as it was.
\* The ids the lookup is tried with: every id the category holds, and two
\* ids that a category may lack.
ProbedIds(cache, entityType) ==
    (IF entityType \in Categories THEN MapKeys(cache[entityType]) ELSE {})
    \cup {BlockSearchChannel, 101}
C38_GetMappedIdOrThrow ==
    \A i \in {InstanceOf(r) : r \in {q \in Runs : run[q].pc # "idle"}} :
      \A entityType \in EntityTypes : \A lbxId \in ProbedIds(mappingCache[i], entityType) :
        \A outcome \in {GetMappedIdOrThrow(mappingCache[i], entityType, lbxId)} :
            LET cache == mappingCache[i]
                held == /\ entityType \in Categories
                        /\ \E k \in 1..Len(cache[entityType]) : cache[entityType][k].k = lbxId
            IN  /\ outcome.cache = cache
                /\ outcome.ok <=> held
                /\ outcome.ok =>
                      \E k \in 1..Len(cache[entityType]) :
                          cache[entityType][k] = [k |-> lbxId, v |-> outcome.value]
                /\ ~outcome.ok => outcome.msg = <<"no_mapping", entityType, ToString(lbxId)>>
C38_Witness ==
    \E i \in Instances :
        /\ GetMappedIdOrThrow(mappingCache[i], "channels", 4).ok
        /\ GetMappedIdOrThrow(mappingCache[i], "channels", 4).value = 2
        /\ ~GetMappedIdOrThrow(mappingCache[i], "channels", BlockSearchChannel).ok
        /\ ~GetMappedIdOrThrow(mappingCache[i], "commercials", 4).ok

\* ---------------------------------------------------------------------------
\* C39: reserveSpots of IntegrationService tells its two early returns apart:
\* it prints "not found mediaplan" exactly when the fetched catalog lacks media
\* plan 42338, and "not found commercial" exactly when the plan is there and
\* has no commercial.
MediaplansFetched(r) ==
    \E i \in 1..Len(run[r].replies) : run[r].replies[i].op = "getMediaplans" /\ run[r].replies[i].ok
C39_BranchesDistinguished ==
    \A r \in Runs : (impl = "service" /\ MediaplansFetched(r)) =>
        /\ "not found mediaplan" \in Range(run[r].console) <=> TargetPlans(r) = <<>>
        /\ "not found commercial" \in Range(run[r].console) <=>
              (TargetPlans(r) # <<>> /\ TargetPlans(r)[1].commercials = <<>>)
\* What the code does: the commercial is tested first, so a missing media plan
\* takes the commercial-not-found return and the other one is never taken.
ReserveSpotsNeverReportsMediaplan ==
    \A r \in Runs : impl = "service" =>
        /\ "not found mediaplan" \notin Range(run[r].console)
        /\ MediaplansFetched(r) =>
              ("not found commercial" \in Range(run[r].console) <=>
                  (TargetPlans(r) = <<>> \/ TargetPlans(r)[1].commercials = <<>>))

====
